---- MODULE Spec2Model ----
(***************************************************************************)
(* Idempotent ingestion pipeline: IdempotencyHandler (content hash,        *)
(* duplicate lookup, row inserts), Normalizer, DatabaseManager             *)
(* (transaction wrapper over one sql.js connection) and                    *)
(* EventService.ingestEvent.                                               *)
(*                                                                         *)
(* JavaScript values are tagged records:                                   *)
(*   undefined  [t |-> "undefined"]       null   [t |-> "null"]            *)
(*   boolean    [t |-> "bool", v |-> b]   number [t |-> "num", v |-> n]    *)
(*   NaN        [t |-> "nan"]                                              *)
(*   string     [t |-> "str", v |-> <<c1, ..., cn>>]  (one-character       *)
(*              strings, so that trim / toLowerCase / parseFloat act on    *)
(*              the characters)                                            *)
(*   array      [t |-> "arr", v |-> <<x1, ..., xn>>]                        *)
(*   object     [t |-> "obj", v |-> << [k |-> key, v |-> value], ... >>]    *)
(*              in insertion order (Object.keys order), keys distinct.     *)
(***************************************************************************)
EXTENDS Integers, Sequences, FiniteSets, TLC

\* ------------------------------------------------------------------ bounds
\* Number of ingestEvent calls a behaviour makes.
MaxCalls == 3
\* Number of HTTP clients that may submit.
NumClients == 2
\* Number of ingestEvent calls a behaviour of SpecFault makes.
MaxFaultCalls == 2
\* Number of storage operations that may throw in a behaviour of SpecFault.
MaxStorageFaults == 1
\* Number of rewrites applied to a payload before it is hashed again.
MaxEdits == 2
\* Number of fields set in a payload before normalize is applied to it again.
MaxPuts == 2

\* ------------------------------------------------------------ JS values
Undefined == [t |-> "undefined"]
Null == [t |-> "null"]
NaN == [t |-> "nan"]
Bool(b) == [t |-> "bool", v |-> b]
\* A JS number with a finite decimal expansion: v / 10^e, with e the least
\* number of decimals (e = 0 for the integers).
RECURSIVE Dec(_, _)
Dec(m, e) == IF e > 0 /\ m % 10 = 0 THEN Dec(m \div 10, e - 1)
             ELSE [t |-> "num", v |-> m, e |-> e]
Num(n) == Dec(n, 0)
Str(s) == [t |-> "str", v |-> s]
Arr(s) == [t |-> "arr", v |-> s]
Obj(s) == [t |-> "obj", v |-> s]
KV(key, val) == [k |-> key, v |-> val]

IsObj(x) == x.t = "obj"
IsStr(x) == x.t = "str"
IsNum(x) == x.t = "num"

\* obj[name] for a JS value obj: undefined when the key is absent (and for the
\* primitives and arrays of the model, whose only own keys are indices/length).
Get(obj, name) ==
    IF IsObj(obj) /\ \E i \in 1..Len(obj.v) : obj.v[i].k = name
    THEN obj.v[CHOOSE i \in 1..Len(obj.v) : obj.v[i].k = name].v
    ELSE Undefined

\* The index keys "0", "1", ... of strings and arrays.
IndexKeys ==
    <<"0", "1", "2", "3", "4", "5", "6", "7", "8", "9", "10", "11", "12", "13", "14",
      "15", "16", "17", "18", "19", "20", "21", "22", "23", "24", "25", "26", "27">>

\* Object.keys(x): the keys of an object in insertion order, the indices of a
\* string or an array, nothing for numbers and booleans.
Keys(x) ==
    CASE IsObj(x) -> [i \in 1..Len(x.v) |-> x.v[i].k]
      [] x.t \in {"str", "arr"} -> [i \in 1..Len(x.v) |-> IndexKeys[i]]
      [] OTHER -> <<>>

\* JS truthiness.
Truthy(x) ==
    CASE x.t = "undefined" -> FALSE
      [] x.t = "null" -> FALSE
      [] x.t = "nan" -> FALSE
      [] x.t = "bool" -> x.v
      [] x.t = "num" -> x.v # 0
      [] x.t = "str" -> x.v # <<>>
      [] OTHER -> TRUE

\* ------------------------------------------------------------ characters
UpperCase == <<"A","B","C","D","E","F","G","H","I","J","K","L","M",
               "N","O","P","Q","R","S","T","U","V","W","X","Y","Z">>
LowerCase == <<"a","b","c","d","e","f","g","h","i","j","k","l","m",
               "n","o","p","q","r","s","t","u","v","w","x","y","z">>
Digits == <<"0","1","2","3","4","5","6","7","8","9">>
WhiteSpace == {" ", "\t", "\n", "\r"}

IsDigit(c) == \E i \in 1..Len(Digits) : Digits[i] = c
DigitVal(c) == (CHOOSE i \in 1..Len(Digits) : Digits[i] = c) - 1

\* String.prototype.toLowerCase, one character.
ToLowerChar(c) ==
    IF \E i \in 1..Len(UpperCase) : UpperCase[i] = c
    THEN LowerCase[CHOOSE i \in 1..Len(UpperCase) : UpperCase[i] = c]
    ELSE c

toLowerCase(s) == [i \in 1..Len(s) |-> ToLowerChar(s[i])]

\* String.prototype.trim.
trim(s) ==
    LET keep == {i \in 1..Len(s) : s[i] \notin WhiteSpace}
    IN IF keep = {} THEN <<>>
       ELSE LET lo == CHOOSE i \in keep : \A j \in keep : i <= j
                hi == CHOOSE i \in keep : \A j \in keep : j <= i
            IN SubSeq(s, lo, hi)

\* ---------------------------------------------------- IdempotencyHandler
\* The keys of the model in the order Array.prototype.sort gives them (UTF-16
\* code units).
SortedKeyUniverse ==
    <<"amount", "client", "clientId", "client_id", "createdAt", "created_at",
      "date", "eventType", "event_time", "event_type", "extra", "id", "metric",
      "name", "payload", "quantity", "received_at", "sender", "source", "sum",
      "time", "timestamp", "total", "type", "value">>

KeyRank(key) == CHOOSE i \in 1..Len(SortedKeyUniverse) : SortedKeyUniverse[i] = key

\* The entries of an object in Object.keys(obj).sort() order.
RECURSIVE SortEntries(_)
SortEntries(es) ==
    IF es = <<>> THEN <<>>
    ELSE LET m == CHOOSE i \in 1..Len(es) :
                    \A j \in 1..Len(es) : KeyRank(es[i].k) <= KeyRank(es[j].k)
             rest == [j \in 1..(Len(es) - 1) |-> IF j < m THEN es[j] ELSE es[j + 1]]
         IN <<es[m]>> \o SortEntries(rest)

\* The keys normalizeForHashing skips.
HashSkippedKeys == {"received_at", "created_at", "id"}

\* Mutant: the metadata keys are kept in the hashed content.
HashSkipsMut(key) == FALSE

HashSkips(key) == key \in HashSkippedKeys

RECURSIVE normalizeForHashing(_)
normalizeForHashing(obj) ==
    CASE obj.t \in {"null", "undefined"} -> obj
      [] obj.t = "arr" -> Arr([i \in 1..Len(obj.v) |-> normalizeForHashing(obj.v[i])])
      [] obj.t = "obj" ->
           LET sorted == SortEntries(obj.v)
               kept == SelectSeq(sorted, LAMBDA e : ~HashSkips(e.k))
           IN Obj([i \in 1..Len(kept) |->
                     KV(kept[i].k, normalizeForHashing(kept[i].v))])
      [] obj.t = "str" -> Str(toLowerCase(trim(obj.v)))
      [] OTHER -> obj

\* sha256(JSON.stringify(normalizeForHashing(rawEvent))): the digest is taken
\* as injective on the serialized content, and the JSON text of a canonical
\* value determines the value with its key order, so the fingerprint is
\* represented by the canonical value.
generateEventHash(rawEvent) == normalizeForHashing(rawEvent)

\* ------------------------------------------------------------- Normalizer
\* this.fieldMappings: canonical field -> accepted aliases, in order.
fieldMappings ==
    [client_id |-> <<"source", "client", "client_id", "clientId", "sender">>,
     metric    |-> <<"metric", "type", "event_type", "eventType", "name">>,
     amount    |-> <<"amount", "value", "quantity", "total", "sum">>,
     timestamp |-> <<"timestamp", "time", "date", "created_at", "createdAt",
                     "event_time">>]

\* The sets normalize checks Object.keys against.
knownFields == {"source", "client", "client_id", "clientId", "sender", "payload"}
payloadKnownFields ==
    {"metric", "type", "event_type", "eventType", "name",
     "amount", "value", "quantity", "total", "sum",
     "timestamp", "time", "date", "created_at", "createdAt", "event_time"}

\* An error or warning text; arg carries the value interpolated into it.
Msg(text, arg) == [text |-> text, arg |-> arg]

\* obj[name] !== undefined && obj[name] !== null && obj[name] !== ''
Present(x) == x.t \notin {"undefined", "null"} /\ x # Str(<<>>)

\* Mutant: the last alias with a value wins instead of the first.
extractFieldMut(obj, canonicalName) ==
    LET names == fieldMappings[canonicalName]
        hits == {i \in 1..Len(names) : Truthy(obj) /\ Present(Get(obj, names[i]))}
    IN IF hits = {} THEN Null
       ELSE Get(obj, names[CHOOSE i \in hits : \A j \in hits : j <= i])

extractField(obj, canonicalName) ==
    LET names == fieldMappings[canonicalName]
        hits == {i \in 1..Len(names) : Truthy(obj) /\ Present(Get(obj, names[i]))}
    IN IF hits = {} THEN Null
       ELSE Get(obj, names[CHOOSE i \in hits : \A j \in hits : i <= j])

\* Decimal digits of a natural number.
RECURSIVE NatToStr(_)
NatToStr(n) ==
    IF n < 10 THEN <<Digits[n + 1]>>
    ELSE NatToStr(n \div 10) \o <<Digits[(n % 10) + 1]>>

RECURSIVE Pow10(_)
Pow10(e) == IF e = 0 THEN 1 ELSE 10 * Pow10(e - 1)

\* String(x) for the values of the model.
String(x) ==
    CASE x.t = "str" -> x
      [] x.t = "num" ->
           LET a == IF x.v < 0 THEN 0 - x.v ELSE x.v
               whole == NatToStr(a \div Pow10(x.e))
               frac == NatToStr(Pow10(x.e) + (a % Pow10(x.e)))
           IN Str((IF x.v < 0 THEN <<"-">> ELSE <<>>) \o whole
                  \o (IF x.e = 0 THEN <<>> ELSE <<".">> \o Tail(frac)))
      [] x.t = "bool" -> Str(IF x.v THEN <<"t","r","u","e">>
                             ELSE <<"f","a","l","s","e">>)
      [] x.t = "obj" -> Str(<<"[","o","b","j","e","c","t"," ",
                              "O","b","j","e","c","t","]">>)
      [] OTHER -> Str(<<>>)

\* Value of a run of digits.
RECURSIVE DigitsVal(_)
DigitsVal(s) ==
    IF s = <<>> THEN 0
    ELSE 10 * DigitsVal(SubSeq(s, 1, Len(s) - 1)) + DigitVal(s[Len(s)])

\* Length of the run of digits of s that starts at position i.
DigitRun(s, i) ==
    CHOOSE k \in 0..(Len(s) - i + 1) :
        /\ \A j \in i..(i + k - 1) : IsDigit(s[j])
        /\ (i + k <= Len(s) => ~IsDigit(s[i + k]))

\* The number of a signed numeric prefix: n digits of body, then '.' and
\* f digits when f > 0; NaN when the prefix has no digit.
FloatOfParts(neg, body, n, f) ==
    IF n = 0 /\ f = 0 THEN NaN
    ELSE Dec((IF neg THEN 0 - 1 ELSE 1)
             * (DigitsVal(SubSeq(body, 1, n)) * Pow10(f)
                + DigitsVal(SubSeq(body, n + 2, n + 1 + f))), f)

\* The digits after a '.' that follows the n leading digits of body.
FloatOfWhole(neg, body, n) ==
    FloatOfParts(neg, body, n,
                 IF n < Len(body) /\ body[n + 1] = "." THEN DigitRun(body, n + 2) ELSE 0)

FloatOfBody(neg, body) == FloatOfWhole(neg, body, DigitRun(body, 1))

\* The optional sign of the trimmed text is split from its body.
FloatOfTrimmed(t) ==
    FloatOfBody(t # <<>> /\ t[1] = "-",
                IF t # <<>> /\ t[1] \in {"-", "+"} THEN Tail(t) ELSE t)

\* parseFloat on the strings of the model (sign, digits, '.', digits; the
\* model's strings carry no exponent and no "Infinity"): the longest numeric
\* prefix after leading white space, NaN when there is none.
parseFloat(s) == FloatOfTrimmed(trim(s))

\* Mutant: only the thousands separators are removed.
StripSeparatorsMut(s) == SelectSeq(s, LAMBDA c : c # ",")

\* value.replace(/[,$]/g, '')
StripSeparators(s) == SelectSeq(s, LAMBDA c : c \notin {",", "$"})

parseNumber(value) ==
    CASE value.t = "num" -> value
      [] value.t = "nan" -> Null
      [] value.t = "str" ->
           LET parsed == parseFloat(trim(StripSeparators(value.v)))
           IN IF parsed = NaN THEN Null ELSE parsed
      [] OTHER -> Null

\* ---- timestamps
AllDigits(s, lo, hi) == \A i \in lo..hi : IsDigit(s[i])
TwoDigits(s, i) == 10 * DigitVal(s[i]) + DigitVal(s[i + 1])
ValidMonthDay(m, d) == m \in 1..12 /\ d \in 1..28

\* /^\d{4}\/\d{2}\/\d{2}$/
IsYMDSlash(s) ==
    Len(s) = 10 /\ AllDigits(s, 1, 4) /\ s[5] = "/" /\ AllDigits(s, 6, 7)
    /\ s[8] = "/" /\ AllDigits(s, 9, 10)
\* /^\d{2}\/\d{2}\/\d{4}$/
IsDMYSlash(s) ==
    Len(s) = 10 /\ AllDigits(s, 1, 2) /\ s[3] = "/" /\ AllDigits(s, 4, 5)
    /\ s[6] = "/" /\ AllDigits(s, 7, 10)
\* YYYY-MM-DD
IsISODate(s) ==
    Len(s) = 10 /\ AllDigits(s, 1, 4) /\ s[5] = "-" /\ AllDigits(s, 6, 7)
    /\ s[8] = "-" /\ AllDigits(s, 9, 10)

MidnightZ == <<"T","0","0",":","0","0",":","0","0",".","0","0","0","Z">>
\* toISOString of UTC midnight of the given date parts.
IsoMidnight(y, m, d) == Str(y \o <<"-">> \o m \o <<"-">> \o d \o MidnightZ)

\* new Date().toISOString(): the text of the instant `now` (a tick count); it
\* differs from the text of every parsed date of the model.
IsoOfInstant(now) == Str(<<"@">> \o NatToStr(now))

\* new Date(n).toISOString() for a number of milliseconds: a text that
\* differs from the text of every date string of the model.
IsoOfMillis(n) == Str(<<"#">> \o (IF n < 0 THEN <<"-">> \o NatToStr(0 - n) ELSE NatToStr(n)))

\* The text new Date(value) and the patterns read from a value: the string
\* itself, and for an array of one string that string.
DateText(value) ==
    IF value.t = "arr" /\ Len(value.v) = 1 /\ value.v[1].t = "str"
    THEN value.v[1].v ELSE value.v

\* Mutant: a value that is no date is read as the epoch.
parseTimestampMut(value) == IF ~Truthy(value) THEN Null ELSE IsoOfMillis(0)

\* parseTimestamp on the values of the model (process time zone UTC). Numbers
\* and true are milliseconds since the epoch; strings are ISO dates or one of
\* the two slash patterns, other strings of the model (letters) are not
\* dates; objects and other arrays are invalid dates. Days are kept in
\* 01..28, valid in every month.
parseTimestamp(value) ==
    IF ~Truthy(value) THEN Null
    ELSE IF value.t = "num" THEN IsoOfMillis(value.v \div Pow10(value.e))
    ELSE IF value.t = "bool" THEN IsoOfMillis(1)
    ELSE IF value.t = "obj" THEN Null
    ELSE IF value.t = "arr" /\ ~(Len(value.v) = 1 /\ value.v[1].t = "str") THEN Null
    ELSE LET s == DateText(value)
         IN CASE IsISODate(s) /\ ValidMonthDay(TwoDigits(s, 6), TwoDigits(s, 9)) ->
                   IsoMidnight(SubSeq(s, 1, 4), SubSeq(s, 6, 7), SubSeq(s, 9, 10))
              [] IsYMDSlash(s) /\ ValidMonthDay(TwoDigits(s, 6), TwoDigits(s, 9)) ->
                   IsoMidnight(SubSeq(s, 1, 4), SubSeq(s, 6, 7), SubSeq(s, 9, 10))
              [] IsDMYSlash(s) /\ ValidMonthDay(TwoDigits(s, 4), TwoDigits(s, 1)) ->
                   IsoMidnight(SubSeq(s, 7, 10), SubSeq(s, 4, 5), SubSeq(s, 1, 2))
              [] OTHER -> Null

\* Mutant: unknown keys are ignored silently.
UnknownWarningsMut(x, known, text) == <<>>

\* Warnings for the keys of x outside `known`.
UnknownWarnings(x, known, text) ==
    LET ks == SelectSeq(Keys(x), LAMBDA key : key \notin known)
    IN [i \in 1..Len(ks) |-> Msg(text, Str(<<ks[i]>>))]

Canonical(c, m, a, ts) ==
    [t |-> "canonical", client_id |-> c, metric |-> m, amount |-> a, timestamp |-> ts]

\* Mutant: a missing amount is not reported.
AmountErrorsMut(amount) == <<>>

\* The errors normalize pushes for the extracted amount.
AmountErrors(amount) ==
    IF amount.t \in {"null", "undefined"}
    THEN <<Msg("Missing required field: amount (or equivalent)", Null)>>
    ELSE IF parseNumber(amount) = Null
         THEN <<Msg("Invalid amount value (cannot be converted to number)", amount)>>
         ELSE <<>>

\* normalize(rawEvent), with `now` the instant new Date() returns.
normalize(rawEvent, now) ==
    IF rawEvent.t \in {"null", "undefined"}
    THEN \* rawEvent.payload throws; the catch returns the exception result
         [success |-> FALSE, data |-> Null,
          errors |-> <<Msg("Normalization exception", Null)>>, warnings |-> <<>>]
    ELSE
    LET clientId == extractField(rawEvent, "client_id")
        payload == IF Truthy(Get(rawEvent, "payload")) THEN Get(rawEvent, "payload")
                   ELSE rawEvent
        metric == extractField(payload, "metric")
        amount == extractField(payload, "amount")
        timestamp == extractField(payload, "timestamp")
        parsedAmount == parseNumber(amount)
        parsedTimestamp == parseTimestamp(timestamp)
        errors ==
            (IF ~Truthy(clientId)
             THEN <<Msg("Missing required field: client_id (or equivalent)", Null)>>
             ELSE <<>>)
            \o (IF ~Truthy(metric)
                THEN <<Msg("Missing required field: metric (or equivalent)", Null)>>
                ELSE <<>>)
            \o AmountErrors(amount)
            \o (IF Truthy(timestamp) /\ ~Truthy(parsedTimestamp)
                THEN <<Msg("Invalid timestamp format", timestamp)>>
                ELSE <<>>)
        warnings ==
            (IF amount.t = "str" /\ parsedAmount # Null
             THEN <<Msg("Amount was provided as string, converted", amount)>>
             ELSE <<>>)
            \o (IF ~Truthy(timestamp)
                THEN <<Msg("Missing timestamp field, using current time as fallback", Null)>>
                ELSE IF ~Truthy(parsedTimestamp)
                     THEN <<Msg("Using current time due to invalid timestamp", Null)>>
                     ELSE IF parsedTimestamp # timestamp
                          THEN <<Msg("Timestamp normalized", timestamp)>>
                          ELSE <<>>)
            \o UnknownWarnings(rawEvent, knownFields, "Unknown field at root level")
            \o UnknownWarnings(payload, payloadKnownFields, "Unknown field in payload")
    IN IF errors # <<>>
       THEN [success |-> FALSE, data |-> Null, errors |-> errors, warnings |-> warnings]
       ELSE [success |-> TRUE,
             data |-> Canonical(String(clientId), String(metric), parsedAmount,
                                IF Truthy(parsedTimestamp) THEN parsedTimestamp
                                ELSE IsoOfInstant(now)),
             errors |-> <<>>, warnings |-> warnings]

\* ------------------------------------------------------------------ state
VARIABLES
    raw_events,        \* table raw_events of the sql.js connection (set of rows)
    normalized_events, \* table normalized_events
    failed_events,     \* table failed_events
    processing_log,    \* table processing_log, in insertion order
    sqlite_sequence,   \* AUTOINCREMENT counters, one per table
    journal,           \* <<>>, or <<snapshot>> taken by BEGIN while a SQL transaction is open
    inTransaction,     \* DatabaseManager.inTransaction
    clock,             \* CURRENT_TIMESTAMP / new Date(): number of calls started
    pc,                \* per client: position inside ingestEvent
    frame,             \* per client: the locals of its ingestEvent call
    results,           \* the calls that returned, in order, with their results
    faults,            \* storage faults the environment may still inject
    callLimit,         \* number of calls the behaviour may start
    pure,              \* inputs of the specifications of the pure functions
    file               \* the database file: the export save() wrote last

vars == <<raw_events, normalized_events, failed_events, processing_log,
          sqlite_sequence, journal, inTransaction, clock, pc, frame, results,
          faults, callLimit, pure, file>>

tables == <<raw_events, normalized_events, failed_events, processing_log,
            sqlite_sequence>>

Clients == 1..NumClients

\* --------------------------------------------------------- database file
\* Mutant: the log entry written last before BEGIN belongs to the transaction,
\* so ROLLBACK removes it.
SnapshotMut ==
    [raw_events |-> raw_events, normalized_events |-> normalized_events,
     failed_events |-> failed_events,
     processing_log |-> SubSeq(processing_log, 1, Len(processing_log) - 1),
     sqlite_sequence |-> sqlite_sequence]

\* The database as BEGIN snapshots it and ROLLBACK restores it.
Snapshot ==
    [raw_events |-> raw_events, normalized_events |-> normalized_events,
     failed_events |-> failed_events, processing_log |-> processing_log,
     sqlite_sequence |-> sqlite_sequence]

\* save(), called by exec and prepare.run after a statement that ran (wrote
\* is false when the statement threw or was not run): the export of the
\* database replaces the file unless inTransaction is set.
save(wrote) ==
    file' = IF wrote /\ ~inTransaction THEN Snapshot' ELSE file

\* ------------------------------------------------------------------ inputs
S(str) == Str(str)
\* {source:"A", payload:{metric:"m", amount:"5"}}
EvGood ==
    Obj(<<KV("source", S(<<"A">>)),
          KV("payload", Obj(<<KV("metric", S(<<"m">>)), KV("amount", S(<<"5">>))>>))>>)
\* {id:7, payload:{amount:"5", metric:" M"}, source:"a"}: other bytes, same content
EvGoodVariant ==
    Obj(<<KV("id", Num(7)),
          KV("payload", Obj(<<KV("amount", S(<<"5">>)), KV("metric", S(<<" ", "M">>))>>)),
          KV("source", S(<<"a">>))>>)
\* {source:"a", payload:{metric:"m"}}: amount missing
EvNoAmount ==
    Obj(<<KV("source", S(<<"a">>)),
          KV("payload", Obj(<<KV("metric", S(<<"m">>))>>))>>)
\* {client:"b", metric:"m", value:7, timestamp:"2024/01/01"}: no payload key
EvFlat ==
    Obj(<<KV("client", S(<<"b">>)), KV("metric", S(<<"m">>)), KV("value", Num(7)),
          KV("timestamp", S(<<"2","0","2","4","/","0","1","/","0","1">>))>>)

Events == {EvGood, EvGoodVariant, EvNoAmount, EvFlat}

\* {source:"Ab", payload:{metric:"m", extra:["x", {name:"Y"}]}}: nested
\* objects and an array
EvNested ==
    Obj(<<KV("source", S(<<"A", "b">>)),
          KV("payload",
             Obj(<<KV("metric", S(<<"m">>)),
                   KV("extra", Arr(<<S(<<"x">>), Obj(<<KV("name", S(<<"Y">>))>>)>>))>>))>>)
\* {source:"a", payload:{metric:"m", amount:"5", timestamp:"2024/01/01"}}
EvFull ==
    Obj(<<KV("source", S(<<"a">>)),
          KV("payload",
             Obj(<<KV("metric", S(<<"m">>)), KV("amount", S(<<"5">>)),
                   KV("timestamp", S(<<"2","0","2","4","/","0","1","/","0","1">>))>>))>>)

\* {source:"a", payload:"ab"}: the payload is not an object
EvStringPayload ==
    Obj(<<KV("source", S(<<"a">>)), KV("payload", S(<<"a", "b">>))>>)

\* The arguments normalize is applied to: null, a number, a string, and events.
NormalizeInputs == {Null, Num(5), S(<<"a", "b">>), EvStringPayload, EvGood, EvFlat}

\* Values a payload may carry under an alias of the client identifier or of
\* the metric: a string, the empty string, 0, false, null.
NameValues == {S(<<"B">>), S(<<>>), Num(0), Bool(FALSE), Null}
\* Values under an alias of the metric.
MetricValues == {S(<<"n">>), S(<<>>), Num(0)}
\* "1,200.50", "1200", "$5", "12abc", "abc", "-5", 7, -5, true
AmountValues ==
    {S(<<"1", ",", "2", "0", "0", ".", "5", "0">>), S(<<"1", "2", "0", "0">>),
     S(<<"$", "5">>), S(<<"1", "2", "a", "b", "c">>), S(<<"a", "b", "c">>),
     S(<<"-", "5">>), Num(7), Num(0 - 5), Bool(TRUE)}
\* "2024-01-02", "02/01/2024", "nop", {}, 5
TimestampValues ==
    {S(<<"2", "0", "2", "4", "-", "0", "1", "-", "0", "2">>),
     S(<<"0", "2", "/", "0", "1", "/", "2", "0", "2", "4">>),
     S(<<"n", "o", "p">>), Obj(<<>>), Num(5)}
\* null, "", 0, {}
PayloadValues == {Null, S(<<>>), Num(0), Obj(<<>>)}
\* The aliases the payloads of the model use for each canonical field.
UsedAliases ==
    [client_id |-> {"source", "client"}, metric |-> {"metric", "type"},
     amount |-> {"amount"}, timestamp |-> {"timestamp"}]

\* {source:"a", payload:{metric:"m", amount:5, created_at:"2024-01-01"}}: the
\* event time under the alias created_at
EvCreatedAt ==
    Obj(<<KV("source", S(<<"a">>)),
          KV("payload",
             Obj(<<KV("metric", S(<<"m">>)), KV("amount", Num(5)),
                   KV("created_at", S(<<"2","0","2","4","-","0","1","-","0","1">>))>>))>>)
BusinessInputs == {EvFull, EvCreatedAt, EvGood}

\* The payloads generateEventHash is applied to.
HashInputs == {EvNested, EvGoodVariant, EvFlat}
AliasInputs == {EvFull, EvGood, EvFlat}

\* ----------------------------------------------------------- error texts
SimulatedFailure == <<Msg("Simulated database failure", Null)>>
RaceFailure == <<Msg("Failed to store raw event (possible race condition)", Null)>>
StorageError == <<Msg("storage error", Null)>>
NestedBegin == <<Msg("cannot start a transaction within a transaction", Null)>>
NoTransaction == <<Msg("cannot rollback - no transaction is active", Null)>>

\* --------------------------------------------------------------- results
NoResult ==
    [fields |-> {}, threw |-> FALSE, status |-> 0, success |-> FALSE, message |-> "",
     isDuplicate |-> FALSE, eventHash |-> Null, firstSeenAt |-> 0, data |-> Null,
     errors |-> <<>>, warnings |-> <<>>, rawEventId |-> 0, normalizedEventId |-> 0,
     error |-> <<>>, retryable |-> FALSE]

\* The call threw (the returned promise is rejected).
Threw(err) == [NoResult EXCEPT !.threw = TRUE, !.error = err]

\* Mutant: the duplicate result carries the time of the resubmission.
DuplicateResultNowMut(h, dup) ==
    [NoResult EXCEPT
       !.fields = {"status", "success", "message", "isDuplicate", "eventHash",
                   "firstSeenAt", "data"},
       !.status = 200, !.success = TRUE,
       !.message = "Event already processed (duplicate detected)",
       !.isDuplicate = TRUE, !.eventHash = h,
       !.firstSeenAt = clock, !.data = dup.data]

DuplicateResult(h, dup) ==
    [NoResult EXCEPT
       !.fields = {"status", "success", "message", "isDuplicate", "eventHash",
                   "firstSeenAt", "data"},
       !.status = 200, !.success = TRUE,
       !.message = "Event already processed (duplicate detected)",
       !.isDuplicate = TRUE, !.eventHash = h,
       !.firstSeenAt = dup.firstSeenAt, !.data = dup.data]

ValidationResult(h, nr) ==
    [NoResult EXCEPT
       !.fields = {"status", "success", "message", "errors", "warnings", "eventHash"},
       !.status = 400, !.success = FALSE, !.message = "Event validation failed",
       !.errors = nr.errors, !.warnings = nr.warnings, !.eventHash = h]

\* Mutant: the created result drops the warnings of normalization.
CreatedResultNoWarningsMut(h, f) ==
    [NoResult EXCEPT
       !.fields = {"status", "success", "message", "eventHash", "rawEventId",
                   "normalizedEventId", "data", "warnings"},
       !.status = 201, !.success = TRUE, !.message = "Event processed successfully",
       !.eventHash = h, !.rawEventId = f.rawEventId,
       !.normalizedEventId = f.normalizedEventId,
       !.data = f.normalizationResult.data]

CreatedResult(h, f) ==
    [NoResult EXCEPT
       !.fields = {"status", "success", "message", "eventHash", "rawEventId",
                   "normalizedEventId", "data", "warnings"},
       !.status = 201, !.success = TRUE, !.message = "Event processed successfully",
       !.eventHash = h, !.rawEventId = f.rawEventId,
       !.normalizedEventId = f.normalizedEventId,
       !.data = f.normalizationResult.data,
       !.warnings = f.normalizationResult.warnings]

PersistenceErrorResult(h, txnError) ==
    [NoResult EXCEPT
       !.fields = {"status", "success", "message", "error", "eventHash", "retryable"},
       !.status = 500, !.success = FALSE, !.message = "Database error occurred",
       !.error = txnError, !.eventHash = h, !.retryable = TRUE]

\* Mutant: the outer catch's result leaves the fingerprint out.
UnexpectedErrorResultMut(h, err) ==
    [NoResult EXCEPT
       !.fields = {"status", "success", "message", "error"},
       !.status = 500, !.success = FALSE, !.message = "Unexpected error occurred",
       !.error = err]

UnexpectedErrorResult(h, err) ==
    [NoResult EXCEPT
       !.fields = {"status", "success", "message", "error", "eventHash"},
       !.status = 500, !.success = FALSE, !.message = "Unexpected error occurred",
       !.error = err, !.eventHash = h]

\* ------------------------------------------------------------------ frames
IdleFrame ==
    [rawEvent |-> Null, simulateFailure |-> FALSE, eventHash |-> Null,
     normalizationResult |-> [success |-> FALSE, data |-> Null, errors |-> <<>>,
                              warnings |-> <<>>],
     rawEventId |-> 0, normalizedEventId |-> 0, txnError |-> <<>>, error |-> <<>>,
     faulted |-> FALSE, faultAt |-> "", logBase |-> 0, result |-> NoResult]

\* No pure-function input is in play while requests are ingested.
\* The result fields of a normalize call not made yet.
NoNormalization == [success |-> FALSE, data |-> Null, errors |-> <<>>, warnings |-> <<>>]

NoPure ==
    [kind |-> "", x |-> Null, y |-> Null, hx |-> Null, hy |-> Null,
     edits |-> 0, swaps |-> 0, last |-> "", nx |-> NoNormalization,
     ny |-> NoNormalization, res |-> NoResult, stored |-> Null]

Init ==
    /\ raw_events = {}
    /\ normalized_events = {}
    /\ failed_events = {}
    /\ processing_log = <<>>
    /\ sqlite_sequence = [raw_events |-> 0, normalized_events |-> 0, failed_events |-> 0]
    /\ journal = <<>>
    /\ inTransaction = FALSE
    /\ clock = 0
    /\ pc = [c \in Clients |-> "idle"]
    /\ frame = [c \in Clients |-> IdleFrame]
    /\ results = <<>>
    /\ faults = 0
    /\ callLimit = MaxCalls
    /\ pure = NoPure
    /\ file = Snapshot

\* The same, with storage operations that may throw.
InitFault ==
    /\ raw_events = {}
    /\ normalized_events = {}
    /\ failed_events = {}
    /\ processing_log = <<>>
    /\ sqlite_sequence = [raw_events |-> 0, normalized_events |-> 0, failed_events |-> 0]
    /\ journal = <<>>
    /\ inTransaction = FALSE
    /\ clock = 0
    /\ pc = [c \in Clients |-> "idle"]
    /\ frame = [c \in Clients |-> IdleFrame]
    /\ results = <<>>
    /\ faults = MaxStorageFaults
    /\ callLimit = MaxFaultCalls
    /\ pure = NoPure
    /\ file = Snapshot

\* ---------------------------------------------------------------- storage
RawRow(id, h, rawData, now) ==
    [id |-> id, event_hash |-> h, raw_data |-> rawData, received_at |-> now]

\* Mutant: the normalized row is linked to the wrong raw row.
NormalizedRowMut(id, rawEventId, data) ==
    [id |-> id, raw_event_id |-> rawEventId + 1, client_id |-> data.client_id,
     metric |-> data.metric, amount |-> data.amount, timestamp |-> data.timestamp,
     status |-> "processed"]

NormalizedRow(id, rawEventId, data) ==
    [id |-> id, raw_event_id |-> rawEventId, client_id |-> data.client_id,
     metric |-> data.metric, amount |-> data.amount, timestamp |-> data.timestamp,
     status |-> "processed"]

FailedRow(id, rawEventId, h, rawData, errorMessage, errorType) ==
    [id |-> id, raw_event_id |-> rawEventId, event_hash |-> h, raw_data |-> rawData,
     error_message |-> errorMessage, error_type |-> errorType]

LogRow(h, action, status, message) ==
    [event_hash |-> h, action |-> action, status |-> status, message |-> message]

\* Mutant: raw_events.event_hash carries no UNIQUE constraint.
UniqueOkMut(h) == TRUE

\* event_hash TEXT UNIQUE NOT NULL: the insert of h is accepted.
UniqueOk(h) == \A r \in raw_events : r.event_hash # h

NotFound ==
    [found |-> FALSE, rawEventId |-> 0, normalizedId |-> 0, firstSeenAt |-> 0,
     data |-> Null]

\* Mutant: the lookup never finds the fingerprint.
checkDuplicateMut(h) == NotFound

\* SELECT ... FROM raw_events re LEFT JOIN normalized_events ne
\*   ON ne.raw_event_id = re.id WHERE re.event_hash = ? LIMIT 1
checkDuplicate(h) ==
    IF \A r \in raw_events : r.event_hash # h THEN NotFound
    ELSE LET re == CHOOSE r \in raw_events : r.event_hash = h
             nes == {n \in normalized_events : n.raw_event_id = re.id}
         IN IF nes = {}
            THEN [found |-> TRUE, rawEventId |-> re.id, normalizedId |-> 0,
                  firstSeenAt |-> re.received_at, data |-> Null]
            ELSE LET ne == CHOOSE n \in nes : TRUE
                 IN [found |-> TRUE, rawEventId |-> re.id, normalizedId |-> ne.id,
                     firstSeenAt |-> re.received_at,
                     data |-> Canonical(ne.client_id, ne.metric, ne.amount,
                                        ne.timestamp)]

\* logProcessing: INSERT INTO processing_log.
logProcessing(h, action, status, message) ==
    processing_log' = Append(processing_log, LogRow(h, action, status, message))

\* ---- AggregationService
\* Mutant: the summary counts the received events.
getSummaryMut == [total_events |-> Cardinality(raw_events)]

\* getSummary() without filters: SELECT COUNT(*) as total_events FROM
\* normalized_events WHERE status = 'processed'.
getSummary ==
    [total_events |-> Cardinality({n \in normalized_events : n.status = "processed"})]

\* ------------------------------------------------------------- scheduling
\* Mutant: a call may start while another call is between two of its steps
\* (as if ingestEvent awaited its storage operations).
CanEnterMut(c) == pc[c] = "idle"

\* ingestEvent has no await: once called it runs to its return before any
\* other request handler runs.
CanEnter(c) == \A d \in Clients : pc[d] = "idle"

\* ------------------------------------------------------------ ingestEvent
\* ingestEvent(rawEvent, simulateFailure) is called: eventHash is computed.
IngestStart(c, e, sf) ==
    /\ CanEnter(c)
    /\ clock < callLimit
    /\ clock' = clock + 1
    /\ frame' = [frame EXCEPT ![c] =
                   [IdleFrame EXCEPT !.rawEvent = e, !.simulateFailure = sf,
                                     !.eventHash = generateEventHash(e),
                                     !.logBase = Len(processing_log)]]
    /\ pc' = [pc EXCEPT ![c] = "log_started"]
    /\ UNCHANGED <<tables, journal, inTransaction, results, faults, callLimit, pure, file>>

\* logProcessing(db, eventHash, 'ingest', 'started'), before the try.
LogStarted(c) ==
    /\ pc[c] = "log_started"
    /\ logProcessing(frame[c].eventHash, "ingest", "started", <<>>)
    /\ pc' = [pc EXCEPT ![c] = "check"]
    /\ UNCHANGED <<raw_events, normalized_events, failed_events, sqlite_sequence,
                   journal, inTransaction, clock, frame, results, faults, callLimit, pure>>
    /\ save(TRUE)

\* Mutant: the duplicate branch does not return; the call goes on to normalize.
AfterCheckMut(found, success) == IF success THEN "txn_begin" ELSE "vfail_raw"

\* Where ingestEvent goes after checkDuplicate and normalize.
AfterCheck(found, success) ==
    IF found THEN "done" ELSE IF success THEN "txn_begin" ELSE "vfail_raw"

\* STEP 1 and the call of normalize: the duplicate branch returns, otherwise
\* the normalization result selects the validation or the transaction branch.
CheckDuplicate(c) ==
    /\ pc[c] = "check"
    /\ LET h == frame[c].eventHash
           duplicate == checkDuplicate(h)
           nr == normalize(frame[c].rawEvent, clock)
       IN IF duplicate.found
          THEN /\ logProcessing(h, "ingest", "duplicate",
                                <<Msg("Event already processed", Null)>>)
               /\ frame' = [frame EXCEPT ![c].result = DuplicateResult(h, duplicate)]
               /\ pc' = [pc EXCEPT ![c] = AfterCheck(TRUE, nr.success)]
          ELSE /\ frame' = [frame EXCEPT ![c].normalizationResult = nr]
               /\ pc' = [pc EXCEPT ![c] = AfterCheck(FALSE, nr.success)]
               /\ UNCHANGED processing_log
    /\ UNCHANGED <<raw_events, normalized_events, failed_events, sqlite_sequence,
                   journal, inTransaction, clock, results, faults, callLimit, pure>>
    /\ save(checkDuplicate(frame[c].eventHash).found)

\* storeRawEvent(db, hash, raw): the id of the new row, or 0 (null) when the
\* UNIQUE constraint rejects the insert.
storeRawEvent(c, next) ==
    /\ IF UniqueOk(frame[c].eventHash)
       THEN /\ raw_events' = raw_events \cup
                   {RawRow(sqlite_sequence.raw_events + 1, frame[c].eventHash,
                           frame[c].rawEvent, clock)}
            /\ sqlite_sequence' = [sqlite_sequence EXCEPT
                                     !.raw_events = sqlite_sequence.raw_events + 1]
            /\ frame' = [frame EXCEPT ![c].rawEventId = sqlite_sequence.raw_events + 1]
       ELSE /\ frame' = [frame EXCEPT ![c].rawEventId = 0]
            /\ UNCHANGED <<raw_events, sqlite_sequence>>
    /\ pc' = [pc EXCEPT ![c] = next]

\* Mutant: the FailedEvent is stored also when the raw insert returned null.
storeFailedEventAlwaysMut(c, errorMessage, errorType) ==
    /\ failed_events' = failed_events \cup
           {FailedRow(sqlite_sequence.failed_events + 1, frame[c].rawEventId,
                      frame[c].eventHash, frame[c].rawEvent, errorMessage, errorType)}
    /\ sqlite_sequence' = [sqlite_sequence EXCEPT
                             !.failed_events = sqlite_sequence.failed_events + 1]

\* storeFailedEvent(db, rawEventId, eventHash, rawEvent, message, type), run
\* only if (rawEventId).
storeFailedEvent(c, errorMessage, errorType) ==
    IF frame[c].rawEventId # 0
    THEN /\ failed_events' = failed_events \cup
                {FailedRow(sqlite_sequence.failed_events + 1, frame[c].rawEventId,
                           frame[c].eventHash, frame[c].rawEvent, errorMessage,
                           errorType)}
         /\ sqlite_sequence' = [sqlite_sequence EXCEPT
                                  !.failed_events = sqlite_sequence.failed_events + 1]
    ELSE UNCHANGED <<failed_events, sqlite_sequence>>

\* Validation failure: the standalone raw insert.
ValidationStoreRaw(c) ==
    /\ pc[c] = "vfail_raw"
    /\ storeRawEvent(c, "vfail_failed")
    /\ UNCHANGED <<normalized_events, failed_events, processing_log, journal,
                   inTransaction, clock, results, faults, callLimit, pure>>
    /\ save(UniqueOk(frame[c].eventHash))

\* Validation failure: the FailedEvent of type validation_error.
ValidationStoreFailed(c) ==
    /\ pc[c] = "vfail_failed"
    /\ storeFailedEvent(c, frame[c].normalizationResult.errors, "validation_error")
    /\ pc' = [pc EXCEPT ![c] = "vfail_log"]
    /\ UNCHANGED <<raw_events, normalized_events, processing_log, journal,
                   inTransaction, clock, frame, results, faults, callLimit, pure>>
    /\ save(frame[c].rawEventId # 0)

\* Validation failure: log 'failed' and return the 400 result.
ValidationReturn(c) ==
    /\ pc[c] = "vfail_log"
    /\ logProcessing(frame[c].eventHash, "normalize", "failed",
                     frame[c].normalizationResult.errors)
    /\ frame' = [frame EXCEPT ![c].result =
                   ValidationResult(frame[c].eventHash, frame[c].normalizationResult)]
    /\ pc' = [pc EXCEPT ![c] = "done"]
    /\ UNCHANGED <<raw_events, normalized_events, failed_events, sqlite_sequence,
                   journal, inTransaction, clock, results, faults, callLimit, pure>>
    /\ save(TRUE)

\* ---- STEP 3: processTransaction = db.transaction(callback)
\* this.inTransaction = true; db.exec('BEGIN TRANSACTION'), which throws when
\* the connection already has a transaction open.
TxnBegin(c) ==
    /\ pc[c] = "txn_begin"
    /\ inTransaction' = TRUE
    /\ IF journal = <<>>
       THEN /\ journal' = <<Snapshot>>
            /\ pc' = [pc EXCEPT ![c] = "txn_raw"]
            /\ UNCHANGED frame
       ELSE /\ frame' = [frame EXCEPT ![c].txnError = NestedBegin]
            /\ pc' = [pc EXCEPT ![c] = "txn_rollback"]
            /\ UNCHANGED journal
    /\ UNCHANGED <<tables, clock, results, faults, callLimit, pure, file>>

\* The callback's storeRawEvent(this.db, hash, raw).
TxnStoreRaw(c) ==
    /\ pc[c] = "txn_raw"
    /\ storeRawEvent(c, "txn_check")
    /\ UNCHANGED <<normalized_events, failed_events, processing_log, journal,
                   inTransaction, clock, results, faults, callLimit, pure>>
    /\ save(UniqueOk(frame[c].eventHash))

\* if (!rawEventId) throw ...; if (simulateFailure) throw ...
TxnCheck(c) ==
    /\ pc[c] = "txn_check"
    /\ IF frame[c].rawEventId = 0
       THEN /\ frame' = [frame EXCEPT ![c].txnError = RaceFailure]
            /\ pc' = [pc EXCEPT ![c] = "txn_rollback"]
       ELSE IF frame[c].simulateFailure
            THEN /\ frame' = [frame EXCEPT ![c].txnError = SimulatedFailure]
                 /\ pc' = [pc EXCEPT ![c] = "txn_rollback"]
            ELSE /\ pc' = [pc EXCEPT ![c] = "txn_norm"]
                 /\ UNCHANGED frame
    /\ UNCHANGED <<tables, journal, inTransaction, clock, results, faults, callLimit, pure, file>>

\* The callback's storeNormalizedEvent(this.db, rawEventId, normalized).
TxnStoreNormalized(c) ==
    /\ pc[c] = "txn_norm"
    /\ normalized_events' = normalized_events \cup
          {NormalizedRow(sqlite_sequence.normalized_events + 1, frame[c].rawEventId,
                         frame[c].normalizationResult.data)}
    /\ sqlite_sequence' = [sqlite_sequence EXCEPT
                             !.normalized_events = sqlite_sequence.normalized_events + 1]
    /\ frame' = [frame EXCEPT ![c].normalizedEventId =
                                 sqlite_sequence.normalized_events + 1]
    /\ pc' = [pc EXCEPT ![c] = "txn_commit"]
    /\ UNCHANGED <<raw_events, failed_events, processing_log, journal, inTransaction,
                   clock, results, faults, callLimit, pure>>
    /\ save(TRUE)

\* db.exec('COMMIT'); this.save() (a no-op, inTransaction is still true);
\* this.inTransaction = false. COMMIT throws when no transaction is open.
TxnCommit(c) ==
    /\ pc[c] = "txn_commit"
    /\ IF journal # <<>>
       THEN /\ journal' = <<>>
            /\ inTransaction' = FALSE
            /\ pc' = [pc EXCEPT ![c] = "log_success"]
            /\ UNCHANGED frame
       ELSE /\ frame' = [frame EXCEPT ![c].txnError = NoTransaction]
            /\ pc' = [pc EXCEPT ![c] = "txn_rollback"]
            /\ UNCHANGED <<journal, inTransaction>>
    /\ UNCHANGED <<tables, clock, results, faults, callLimit, pure>>
    /\ save(journal # <<>>)

\* Mutant: ROLLBACK empties raw_events instead of restoring it.
TxnRollbackWipeMut(c) ==
    /\ pc[c] = "txn_rollback"
    /\ raw_events' = {}
    /\ normalized_events' = journal[1].normalized_events
    /\ failed_events' = journal[1].failed_events
    /\ processing_log' = journal[1].processing_log
    /\ sqlite_sequence' = journal[1].sqlite_sequence
    /\ journal' = <<>>
    /\ inTransaction' = FALSE
    /\ pc' = [pc EXCEPT ![c] = "perr_log"]
    /\ UNCHANGED <<frame, clock, results, faults, callLimit, pure, file>>

\* Mutant: the catch of transaction() does not undo the writes of the unit.
TxnRollbackMut(c) ==
    /\ pc[c] = "txn_rollback"
    /\ journal' = <<>>
    /\ inTransaction' = FALSE
    /\ pc' = [pc EXCEPT ![c] = "perr_log"]
    /\ UNCHANGED <<tables, frame, clock, results, faults, callLimit, pure, file>>

\* catch (error) { db.exec('ROLLBACK'); this.inTransaction = false; throw error }
\* ROLLBACK throws when no transaction is open; that error then replaces the
\* callback's and inTransaction stays true.
TxnRollback(c) ==
    /\ pc[c] = "txn_rollback"
    /\ IF journal # <<>>
       THEN /\ raw_events' = journal[1].raw_events
            /\ normalized_events' = journal[1].normalized_events
            /\ failed_events' = journal[1].failed_events
            /\ processing_log' = journal[1].processing_log
            /\ sqlite_sequence' = journal[1].sqlite_sequence
            /\ journal' = <<>>
            /\ inTransaction' = FALSE
            /\ UNCHANGED frame
       ELSE /\ frame' = [frame EXCEPT ![c].txnError = NoTransaction]
            /\ UNCHANGED <<tables, journal, inTransaction>>
    /\ pc' = [pc EXCEPT ![c] = "perr_log"]
    /\ UNCHANGED <<clock, results, faults, callLimit, pure, file>>

\* The transaction returned: log 'success' and return the 201 result.
SuccessReturn(c) ==
    /\ pc[c] = "log_success"
    /\ logProcessing(frame[c].eventHash, "ingest", "success",
                     <<Msg("Event processed successfully", Null)>>)
    /\ frame' = [frame EXCEPT ![c].result = CreatedResult(frame[c].eventHash, frame[c])]
    /\ pc' = [pc EXCEPT ![c] = "done"]
    /\ UNCHANGED <<raw_events, normalized_events, failed_events, sqlite_sequence,
                   journal, inTransaction, clock, results, faults, callLimit, pure>>
    /\ save(TRUE)

\* catch (txnError): log 'persist' 'failed' with the error text.
PersistFailedLog(c) ==
    /\ pc[c] = "perr_log"
    /\ logProcessing(frame[c].eventHash, "persist", "failed", frame[c].txnError)
    /\ pc' = [pc EXCEPT ![c] = "perr_raw"]
    /\ UNCHANGED <<raw_events, normalized_events, failed_events, sqlite_sequence,
                   journal, inTransaction, clock, frame, results, faults, callLimit, pure>>
    /\ save(TRUE)

\* Mutant: catch (txnError) does not insert the raw row again and keeps the
\* id of the row the rollback removed.
PersistFailedStoreRawMut(c) ==
    /\ pc[c] = "perr_raw"
    /\ pc' = [pc EXCEPT ![c] = "perr_failed"]
    /\ UNCHANGED <<tables, frame, journal, inTransaction, clock, results, faults,
                   callLimit, pure, file>>

\* catch (txnError): the raw insert outside the transaction.
PersistFailedStoreRaw(c) ==
    /\ pc[c] = "perr_raw"
    /\ storeRawEvent(c, "perr_failed")
    /\ UNCHANGED <<normalized_events, failed_events, processing_log, journal,
                   inTransaction, clock, results, faults, callLimit, pure>>
    /\ save(UniqueOk(frame[c].eventHash))

\* catch (txnError): the FailedEvent of type persistence_error, then the 500
\* result with retryable: true.
PersistFailedReturn(c) ==
    /\ pc[c] = "perr_failed"
    /\ storeFailedEvent(c, frame[c].txnError, "persistence_error")
    /\ frame' = [frame EXCEPT ![c].result =
                   PersistenceErrorResult(frame[c].eventHash, frame[c].txnError)]
    /\ pc' = [pc EXCEPT ![c] = "done"]
    /\ UNCHANGED <<raw_events, normalized_events, processing_log, journal,
                   inTransaction, clock, results, faults, callLimit, pure>>
    /\ save(frame[c].rawEventId # 0)

\* catch (error): log 'error' and return the 500 result of the outer catch.
UnexpectedError(c) ==
    /\ pc[c] = "unexpected"
    /\ logProcessing(frame[c].eventHash, "ingest", "error", frame[c].error)
    /\ frame' = [frame EXCEPT ![c].result =
                   UnexpectedErrorResult(frame[c].eventHash, frame[c].error)]
    /\ pc' = [pc EXCEPT ![c] = "done"]
    /\ UNCHANGED <<raw_events, normalized_events, failed_events, sqlite_sequence,
                   journal, inTransaction, clock, results, faults, callLimit, pure>>
    /\ save(TRUE)

\* The call returns (or rejects) to the route handler.
Return(c) ==
    /\ pc[c] = "done"
    /\ results' = Append(results,
                         [rawEvent |-> frame[c].rawEvent,
                          simulateFailure |-> frame[c].simulateFailure,
                          eventHash |-> frame[c].eventHash,
                          faulted |-> frame[c].faulted,
                          faultAt |-> frame[c].faultAt,
                          txnError |-> frame[c].txnError,
                          result |-> frame[c].result])
    /\ frame' = [frame EXCEPT ![c] = IdleFrame]
    /\ pc' = [pc EXCEPT ![c] = "idle"]
    /\ UNCHANGED <<tables, journal, inTransaction, clock, faults, callLimit, pure, file>>

\* ---- storage faults
\* Positions at which the step's storage operation (db.run / db.exec) may throw.
FaultPoints ==
    {"log_started", "check", "vfail_raw", "vfail_failed", "vfail_log", "txn_begin",
     "txn_raw", "txn_norm", "txn_commit", "txn_rollback", "log_success", "perr_log",
     "perr_raw", "perr_failed", "unexpected"}

\* Where an exception thrown at position p is caught: the catch of
\* transaction(), the inner try of catch (txnError), the outer catch, or
\* nowhere (the call rejects).
Landing(p) ==
    CASE p \in {"txn_begin", "txn_raw", "txn_norm", "txn_commit"} -> "txn_rollback"
      [] p = "txn_rollback" -> "perr_log"
      [] p \in {"perr_raw", "perr_failed"} -> "swallowed"
      [] p \in {"log_started", "unexpected"} -> "rejected"
      [] OTHER -> "unexpected"

\* The storage operation of the current step throws before it writes.
StorageThrows(c) ==
    /\ pc[c] \in FaultPoints
    /\ faults > 0
    /\ faults' = faults - 1
    /\ LET to == Landing(pc[c])
           f == [frame[c] EXCEPT !.faulted = TRUE, !.faultAt = pc[c]]
       IN CASE to = "txn_rollback" ->
                 /\ frame' = [frame EXCEPT ![c] = [f EXCEPT !.txnError = StorageError]]
                 /\ pc' = [pc EXCEPT ![c] = "txn_rollback"]
            [] to = "perr_log" ->
                 /\ frame' = [frame EXCEPT ![c] = [f EXCEPT !.txnError = StorageError]]
                 /\ pc' = [pc EXCEPT ![c] = "perr_log"]
            [] to = "swallowed" ->
                 /\ frame' = [frame EXCEPT ![c] =
                                [f EXCEPT !.result =
                                   PersistenceErrorResult(f.eventHash, f.txnError)]]
                 /\ pc' = [pc EXCEPT ![c] = "done"]
            [] to = "rejected" ->
                 /\ frame' = [frame EXCEPT ![c] = [f EXCEPT !.result = Threw(StorageError)]]
                 /\ pc' = [pc EXCEPT ![c] = "done"]
            [] OTHER ->
                 /\ frame' = [frame EXCEPT ![c] = [f EXCEPT !.error = StorageError]]
                 /\ pc' = [pc EXCEPT ![c] = "unexpected"]
    /\ inTransaction' = IF pc[c] = "txn_begin" THEN TRUE ELSE inTransaction
    /\ UNCHANGED <<tables, journal, clock, results, callLimit, pure, file>>

\* ------------------------------------------------------------------- specs
\* A request is served in the first free slot: the clients are
\* interchangeable, nothing in the program depends on which one submits.
FirstFree(c) == pc[c] = "idle" /\ \A d \in Clients : d < c => pc[d] # "idle"

Next ==
    \E c \in Clients :
        \/ \E e \in Events, sf \in BOOLEAN : FirstFree(c) /\ IngestStart(c, e, sf)
        \/ LogStarted(c)
        \/ CheckDuplicate(c)
        \/ ValidationStoreRaw(c)
        \/ ValidationStoreFailed(c)
        \/ ValidationReturn(c)
        \/ TxnBegin(c)
        \/ TxnStoreRaw(c)
        \/ TxnCheck(c)
        \/ TxnStoreNormalized(c)
        \/ TxnCommit(c)
        \/ TxnRollback(c)
        \/ SuccessReturn(c)
        \/ PersistFailedLog(c)
        \/ PersistFailedStoreRaw(c)
        \/ PersistFailedReturn(c)
        \/ Return(c)

NextFault ==
    \/ Next
    \/ \E c \in Clients : UnexpectedError(c)
    \/ \E c \in Clients : StorageThrows(c)

\* Storage works: the only failure is the injected simulateFailure.
Spec == Init /\ [][Next]_vars

\* Storage operations may throw.
SpecFault == InitFault /\ [][NextFault]_vars

\* ---- generateEventHash on rewritten payloads
\* The variables of the ingest pipeline.
ingestVars ==
    <<raw_events, normalized_events, failed_events, processing_log, sqlite_sequence,
      journal, inTransaction, clock, pc, frame, results, faults, callLimit, file>>

\* No ingest call is made: the database is empty and stays so.
NoIngest ==
    /\ raw_events = {}
    /\ normalized_events = {}
    /\ failed_events = {}
    /\ processing_log = <<>>
    /\ sqlite_sequence = [raw_events |-> 0, normalized_events |-> 0, failed_events |-> 0]
    /\ journal = <<>>
    /\ inTransaction = FALSE
    /\ clock = 0
    /\ pc = [c \in Clients |-> "idle"]
    /\ frame = [c \in Clients |-> IdleFrame]
    /\ results = <<>>
    /\ faults = 0
    /\ callLimit = 0
    /\ file = Snapshot

FlipCase(c) ==
    IF \E i \in 1..Len(UpperCase) : UpperCase[i] = c
    THEN LowerCase[CHOOSE i \in 1..Len(UpperCase) : UpperCase[i] = c]
    ELSE IF \E i \in 1..Len(LowerCase) : LowerCase[i] = c
         THEN UpperCase[CHOOSE i \in 1..Len(LowerCase) : LowerCase[i] = c]
         ELSE c

\* s without its i-th element.
Remove(s, i) == [j \in 1..(Len(s) - 1) |-> IF j < i THEN s[j] ELSE s[j + 1]]
\* s with its i-th and j-th elements exchanged.
Exchange(s, i, j) == [s EXCEPT ![i] = s[j], ![j] = s[i]]

\* Whitespace put before or after a string value, values given to a metadata key.
PadChars == {" ", "\n"}
MetaValues == {Num(1), Str(<<"z">>)}

\* Two array elements with different content: of different types, or
\* primitives that differ in more than case and outer whitespace.
Differ(a, b) ==
    \/ a.t # b.t
    \/ a.t = "str" /\ toLowerCase(trim(a.v)) # toLowerCase(trim(b.v))
    \/ a.t \in {"num", "bool"} /\ a.v # b.v

\* The values a rewrite of one kind gives when applied to v itself.
RewriteHere(kind, v) ==
    CASE kind = "order" /\ v.t = "obj" ->
           {Obj(Exchange(v.v, i, i + 1)) : i \in 1..(Len(v.v) - 1)}
      [] kind = "case" /\ v.t = "str" ->
           {Str([v.v EXCEPT ![i] = FlipCase(v.v[i])]) :
              i \in {j \in 1..Len(v.v) : FlipCase(v.v[j]) # v.v[j]}}
      [] kind = "space" /\ v.t = "str" ->
           {Str(<<w>> \o v.v) : w \in PadChars} \cup {Str(v.v \o <<w>>) : w \in PadChars}
           \cup {Str(Remove(v.v, i)) :
                   i \in {j \in {1, Len(v.v)} : j >= 1 /\ v.v[j] \in WhiteSpace}}
      [] kind = "meta" /\ v.t = "obj" ->
           {Obj(Append(v.v, KV(k, m))) :
              k \in {n \in HashSkippedKeys : \A i \in 1..Len(v.v) : v.v[i].k # n},
              m \in MetaValues}
           \cup {Obj(Remove(v.v, i)) :
                   i \in {j \in 1..Len(v.v) : v.v[j].k \in HashSkippedKeys}}
      [] kind = "array" /\ v.t = "arr" ->
           {Arr(Exchange(v.v, i, j)) :
              <<i, j>> \in {p \in (1..Len(v.v)) \X (1..Len(v.v)) :
                              p[1] < p[2] /\ Differ(v.v[p[1]], v.v[p[2]])}}
      [] OTHER -> {}

\* The values a rewrite of one kind gives when applied at one place of v, at
\* any depth.
RECURSIVE Rewrite(_, _)
Rewrite(kind, v) ==
    RewriteHere(kind, v)
    \cup (CASE v.t = "obj" ->
                 UNION {{Obj([v.v EXCEPT ![i] = KV(v.v[i].k, w)]) :
                           w \in Rewrite(kind, v.v[i].v)} : i \in 1..Len(v.v)}
            [] v.t = "arr" ->
                 UNION {{Arr([v.v EXCEPT ![i] = w]) : w \in Rewrite(kind, v.v[i])} :
                          i \in 1..Len(v.v)}
            [] OTHER -> {})

\* generateEventHash(rawEvent) applied to the first payload and to the
\* rewritten one.
Hashed(z) ==
    [pure EXCEPT !.y = z, !.hx = generateEventHash(pure.x),
                 !.hy = generateEventHash(z), !.edits = pure.edits + 1]

InitHash ==
    /\ NoIngest
    /\ \E e \in HashInputs :
          pure = [NoPure EXCEPT !.kind = "hash", !.x = e, !.y = e]

\* The keys of one object are put in another order.
ReorderKeys ==
    /\ pure.kind = "hash" /\ pure.edits < MaxEdits
    /\ \E z \in Rewrite("order", pure.y) : pure' = Hashed(z)
    /\ UNCHANGED ingestVars

\* One letter of a string value changes case.
ChangeCase ==
    /\ pure.kind = "hash" /\ pure.edits < MaxEdits
    /\ \E z \in Rewrite("case", pure.y) : pure' = Hashed(z)
    /\ UNCHANGED ingestVars

\* A string value gains or loses one leading or trailing whitespace character.
PadString ==
    /\ pure.kind = "hash" /\ pure.edits < MaxEdits
    /\ \E z \in Rewrite("space", pure.y) : pure' = Hashed(z)
    /\ UNCHANGED ingestVars

\* An object gains or loses one of the keys received_at, created_at, id.
ToggleMetadata ==
    /\ pure.kind = "hash" /\ pure.edits < MaxEdits
    /\ \E z \in Rewrite("meta", pure.y) : pure' = Hashed(z)
    /\ UNCHANGED ingestVars

\* Two elements of one array with different content change places (once).
SwapElements ==
    /\ pure.kind = "hash" /\ pure.edits < MaxEdits /\ pure.swaps = 0
    /\ \E z \in Rewrite("array", pure.y) : pure' = [Hashed(z) EXCEPT !.swaps = 1]
    /\ UNCHANGED ingestVars

NextHash == ReorderKeys \/ ChangeCase \/ PadString \/ ToggleMetadata \/ SwapElements

SpecHash == InitHash /\ [][NextHash]_vars

\* ---- generateEventHash on payloads that name a field by another alias
\* The objects normalize reads the aliases of a canonical field from.
AliasScope(e, field) ==
    IF field = "client_id" \/ ~Truthy(Get(e, "payload")) THEN "root" ELSE "payload"

\* obj with the key from renamed to the key to, in place.
RenameKey(obj, from, to) ==
    Obj([i \in 1..Len(obj.v) |->
           IF obj.v[i].k = from THEN KV(to, obj.v[i].v) ELSE obj.v[i]])

\* e with the value of one canonical field supplied under another accepted
\* alias that the object does not use yet.
AliasRenames(e) ==
    UNION {
      LET names == fieldMappings[field]
          scope == AliasScope(e, field)
          obj == IF scope = "root" THEN e ELSE Get(e, "payload")
          used == {Keys(obj)[i] : i \in 1..Len(Keys(obj))}
      IN {IF scope = "root" THEN RenameKey(e, names[a], names[b])
          ELSE Obj([i \in 1..Len(e.v) |->
                      IF e.v[i].k = "payload"
                      THEN KV("payload", RenameKey(obj, names[a], names[b]))
                      ELSE e.v[i]]) :
            <<a, b>> \in {p \in (1..Len(names)) \X (1..Len(names)) :
                            names[p[1]] \in used /\ names[p[2]] \notin used}}
      : field \in DOMAIN fieldMappings}

InitAlias ==
    /\ NoIngest
    /\ \E e \in AliasInputs :
          pure = [NoPure EXCEPT !.kind = "alias", !.x = e, !.y = e]

\* One field is supplied under another alias; normalize reads the same event.
RenameAlias ==
    /\ pure.kind = "alias" /\ pure.edits < MaxEdits
    /\ \E z \in AliasRenames(pure.y) :
          /\ normalize(z, 0) = normalize(pure.x, 0)
          /\ pure' = Hashed(z)
    /\ UNCHANGED ingestVars

NextAlias == RenameAlias

SpecAlias == InitAlias /\ [][NextAlias]_vars

\* ---- normalize on payloads built field by field
\* obj with key set to val: in place when the key exists, appended otherwise.
Put(obj, key, val) ==
    IF \E i \in 1..Len(obj.v) : obj.v[i].k = key
    THEN Obj([i \in 1..Len(obj.v) |->
                IF obj.v[i].k = key THEN KV(key, val) ELSE obj.v[i]])
    ELSE Obj(Append(obj.v, KV(key, val)))

\* The event has an object under the key payload.
HasPayloadObject(e) == IsObj(e) /\ IsObj(Get(e, "payload"))

\* e with key set to val in the payload object, or at the root of an event
\* that has no payload key.
PutInPayload(e, key, val) ==
    IF HasPayloadObject(e) THEN Put(e, "payload", Put(Get(e, "payload"), key, val))
    ELSE Put(e, key, val)

\* What ingestEvent makes of the normalization result when storage works: the
\* 400 result of the validation branch, or the row the transaction stores.
ReplyOf(z, nr) ==
    IF AfterCheck(FALSE, nr.success) = "vfail_raw"
    THEN ValidationResult(generateEventHash(z), nr) ELSE NoResult
StoredOf(nr) ==
    IF AfterCheck(FALSE, nr.success) = "txn_begin" THEN NormalizedRow(1, 1, nr.data)
    ELSE Null

\* normalize(rawEvent) applied to the payload z; the payload before it and
\* its result are kept for comparison.
Normalized(z, what) ==
    LET nr == normalize(z, clock)
    IN [pure EXCEPT !.x = pure.y, !.nx = pure.ny, !.y = z, !.ny = nr,
                    !.res = ReplyOf(z, nr), !.stored = StoredOf(nr), !.last = what]

InitNormalize ==
    /\ NoIngest
    /\ \E e \in NormalizeInputs :
          pure = [NoPure EXCEPT !.kind = "normalize", !.x = e, !.y = e]

\* normalize is applied to the argument as drawn.
NormalizeInput ==
    /\ pure.kind = "normalize" /\ pure.last = ""
    /\ pure' = Normalized(pure.y, "input")
    /\ UNCHANGED ingestVars

CanPut == pure.kind = "normalize" /\ pure.last # "" /\ pure.edits < MaxPuts /\ IsObj(pure.y)
AfterPut(z, what) == [Normalized(z, what) EXCEPT !.edits = pure.edits + 1]

\* The payload names its client under an alias, at the root.
PutClient ==
    /\ CanPut
    /\ \E key \in UsedAliases.client_id, val \in NameValues :
          pure' = AfterPut(Put(pure.y, key, val), "client_id")
    /\ UNCHANGED ingestVars

PutMetric ==
    /\ CanPut
    /\ \E key \in UsedAliases.metric, val \in MetricValues :
          pure' = AfterPut(PutInPayload(pure.y, key, val), "metric")
    /\ UNCHANGED ingestVars

PutAmount ==
    /\ CanPut
    /\ \E key \in UsedAliases.amount, val \in AmountValues :
          pure' = AfterPut(PutInPayload(pure.y, key, val), "amount")
    /\ UNCHANGED ingestVars

PutTimestamp ==
    /\ CanPut
    /\ \E key \in UsedAliases.timestamp, val \in TimestampValues :
          pure' = AfterPut(PutInPayload(pure.y, key, val), "timestamp")
    /\ UNCHANGED ingestVars

\* A key that is no alias of any field is added, at the root or in the payload.
PutUnknown ==
    /\ CanPut
    /\ \E z \in {Put(pure.y, "extra", Num(1)), PutInPayload(pure.y, "extra", Num(1))} :
          pure' = AfterPut(z, "unknown")
    /\ UNCHANGED ingestVars

\* The key payload is set at the root, to a falsy value or an empty object.
PutPayload ==
    /\ CanPut
    /\ \E val \in PayloadValues : pure' = AfterPut(Put(pure.y, "payload", val), "payload")
    /\ UNCHANGED ingestVars

NextNormalize ==
    \/ NormalizeInput \/ PutClient \/ PutMetric \/ PutAmount \/ PutTimestamp
    \/ PutUnknown \/ PutPayload

SpecNormalize == InitNormalize /\ [][NextNormalize]_vars

\* ---- generateEventHash on payloads with another business value
\* The alias under which e supplies the canonical field, or "" when it names none.
AliasIn(obj, field) ==
    LET names == fieldMappings[field]
        hits == {i \in 1..Len(names) : Present(Get(obj, names[i]))}
    IN IF hits = {} THEN ""
       ELSE names[CHOOSE i \in hits : \A j \in hits : i <= j]

\* The object normalize reads the field from.
ScopeOf(e, field) ==
    IF AliasScope(e, field) = "root" THEN e ELSE Get(e, "payload")

\* e with the value of the field replaced by val, under the alias e uses.
Replaced(e, field, val) ==
    IF AliasScope(e, field) = "root" THEN Put(e, AliasIn(e, field), val)
    ELSE Put(e, "payload", Put(Get(e, "payload"), AliasIn(Get(e, "payload"), field), val))

InitBusiness ==
    /\ NoIngest
    /\ \E e \in BusinessInputs :
          pure = [NoPure EXCEPT !.kind = "business", !.x = e, !.y = e]

\* The payload z is hashed and normalized next to the first payload; both
\* normalize successfully, to different canonical events.
Compared(z) ==
    [Hashed(z) EXCEPT !.nx = normalize(pure.x, clock), !.ny = normalize(z, clock)]
CanChange(field) ==
    /\ pure.kind = "business" /\ pure.edits < MaxEdits
    /\ AliasIn(ScopeOf(pure.y, field), field) # ""
Changes(z) ==
    /\ normalize(z, clock).success
    /\ normalize(z, clock).data # normalize(pure.x, clock).data
    /\ pure' = Compared(z)

ChangeClient ==
    /\ CanChange("client_id")
    /\ \E val \in NameValues : Changes(Replaced(pure.y, "client_id", val))
    /\ UNCHANGED ingestVars

ChangeMetric ==
    /\ CanChange("metric")
    /\ \E val \in MetricValues : Changes(Replaced(pure.y, "metric", val))
    /\ UNCHANGED ingestVars

ChangeAmount ==
    /\ CanChange("amount")
    /\ \E val \in AmountValues : Changes(Replaced(pure.y, "amount", val))
    /\ UNCHANGED ingestVars

ChangeTimestamp ==
    /\ CanChange("timestamp")
    /\ \E val \in TimestampValues : Changes(Replaced(pure.y, "timestamp", val))
    /\ UNCHANGED ingestVars

NextBusiness == ChangeClient \/ ChangeMetric \/ ChangeAmount \/ ChangeTimestamp

SpecBusiness == InitBusiness /\ [][NextBusiness]_vars

\* ================================================================= claims
RawFor(h) == {r \in raw_events : r.event_hash = h}
NormalizedFor(h) ==
    {n \in normalized_events : \E r \in RawFor(h) : n.raw_event_id = r.id}
FailedFor(h) == {f \in failed_events : f.event_hash = h}
Calls == 1..Len(results)
\* Call i is the first returned call for its fingerprint.
FirstFor(i) == \A k \in 1..(i - 1) : results[k].eventHash # results[i].eventHash
\* No call after call i, returned or running, has the fingerprint of call i.
LastFor(i) ==
    /\ \A k \in (i + 1)..Len(results) : results[k].eventHash # results[i].eventHash
    /\ \A c \in Clients : pc[c] # "idle" => frame[c].eventHash # results[i].eventHash
Valid(e) == normalize(e, 0).success
IsCreated(r) == ~r.threw /\ r.status = 201
IsDuplicate(r) == ~r.threw /\ r.status = 200 /\ "isDuplicate" \in r.fields /\ r.isDuplicate
IsRetryable(r) == "retryable" \in r.fields /\ r.retryable

\* C1 (Idempotence): when a payload that normalizes successfully is submitted
\* twice with the same bytes and without the injected fault, the first
\* submission of that fingerprint returns the created result (201), the
\* second returns the duplicate result (200, isDuplicate) with the same
\* fingerprint and no record identifiers, and exactly one NormalizedEvent
\* exists for the fingerprint.
C1_Idempotence ==
    \A i \in Calls, j \in Calls :
        ( /\ i < j
          /\ FirstFor(i)
          /\ results[i].rawEvent = results[j].rawEvent
          /\ ~results[i].simulateFailure /\ ~results[j].simulateFailure
          /\ Valid(results[i].rawEvent) )
        => /\ IsCreated(results[i].result)
           /\ IsDuplicate(results[j].result)
           /\ results[j].result.eventHash = results[i].result.eventHash
           /\ "rawEventId" \notin results[j].result.fields
           /\ "normalizedEventId" \notin results[j].result.fields
           /\ Cardinality(NormalizedFor(results[i].eventHash)) = 1

C1_Witness ==
    \E i \in Calls, j \in Calls :
        /\ i < j /\ FirstFor(i)
        /\ results[i].rawEvent = results[j].rawEvent
        /\ ~results[i].simulateFailure /\ ~results[j].simulateFailure
        /\ Valid(results[i].rawEvent)
        /\ IsDuplicate(results[j].result)

\* C2 (Retry after a persistence failure): after a first submission with the
\* injected fault returned the retryable server error, the next submission of
\* the same bytes without the fault returns the created result (201) and
\* exactly one NormalizedEvent exists for the fingerprint.
C2_RetrySucceeds ==
    \A i \in Calls, j \in Calls :
        ( /\ i < j
          /\ FirstFor(i)
          /\ \A k \in (i + 1)..(j - 1) : results[k].eventHash # results[i].eventHash
          /\ results[i].rawEvent = results[j].rawEvent
          /\ results[i].simulateFailure /\ ~results[j].simulateFailure
          /\ results[i].result.status = 500 /\ IsRetryable(results[i].result) )
        => /\ IsCreated(results[j].result)
           /\ Cardinality(NormalizedFor(results[i].eventHash)) = 1

\* No call is at its 'started' log write or its duplicate lookup while a SQL
\* transaction is open.
C3_ObservedCommitted ==
    \A c \in Clients : pc[c] \in {"log_started", "check"} => journal = <<>>
\* A step that closes the open transaction leaves either nothing or both rows.
C3_UnitStep ==
    (journal # <<>> /\ journal' = <<>>)
    => \/ /\ raw_events' = journal[1].raw_events
          /\ normalized_events' = journal[1].normalized_events
       \/ \E r \in raw_events' \ journal[1].raw_events,
             n \in normalized_events' \ journal[1].normalized_events :
            /\ n.raw_event_id = r.id
            /\ raw_events' = journal[1].raw_events \cup {r}
            /\ normalized_events' = journal[1].normalized_events \cup {n}
\* C3 (All-or-nothing transactional write): no duplicate check runs while a
\* transaction is open, so it never reads uncommitted rows; and whenever a
\* transaction closes, the raw and normalized tables either are what they
\* were at BEGIN or hold exactly one new RawEvent and one new NormalizedEvent
\* that references it.
C3_Atomic == [](C3_ObservedCommitted) /\ [][C3_UnitStep]_vars

\* A duplicate check runs after one unit committed and another rolled back.
C3_Witness ==
    /\ \E c \in Clients : pc[c] = "check"
    /\ \E i \in Calls : IsCreated(results[i].result)
    /\ \E i \in Calls : results[i].txnError # <<>>

\* C4 (Unique fingerprint): in every reachable state at most one RawEvent
\* exists for any fingerprint.
C4_UniqueRaw ==
    \A r1 \in raw_events, r2 \in raw_events :
        r1.event_hash = r2.event_hash => r1 = r2

\* The UNIQUE constraint rejected a raw insert (storeRawEvent returned null).
C4_Witness ==
    \E c \in Clients :
        /\ pc[c] = "perr_failed"
        /\ frame[c].rawEventId = 0
        /\ RawFor(frame[c].eventHash) # {}

\* C5 (One-to-one): in every reachable state each RawEvent has at most one
\* NormalizedEvent and every NormalizedEvent references an existing RawEvent.
C5_OneToOne ==
    /\ \A n1 \in normalized_events, n2 \in normalized_events :
          n1.raw_event_id = n2.raw_event_id => n1 = n2
    /\ \A n \in normalized_events : \E r \in raw_events : r.id = n.raw_event_id

\* Two NormalizedEvents exist, and a resubmission of stored content returned.
C5_Witness ==
    /\ Cardinality(normalized_events) >= 2
    /\ \E j \in Calls : IsDuplicate(results[j].result)

C7_Step ==
    \A c \in Clients :
        /\ (pc[c] = "log_started" /\ pc'[c] # "log_started")
           => /\ UNCHANGED <<raw_events, normalized_events, failed_events,
                             sqlite_sequence, journal, inTransaction>>
              /\ processing_log' =
                    Append(processing_log,
                           LogRow(frame[c].eventHash, "ingest", "started", <<>>))
        /\ (pc[c] = "check" /\ pc'[c] # "check"
            /\ checkDuplicate(frame[c].eventHash).found)
           => /\ UNCHANGED <<raw_events, normalized_events, failed_events,
                             sqlite_sequence, journal, inTransaction>>
              /\ pc'[c] = "done"
              /\ IsDuplicate(frame'[c].result)
              /\ frame'[c].normalizationResult = IdleFrame.normalizationResult
              /\ processing_log[Len(processing_log)] =
                    LogRow(frame[c].eventHash, "ingest", "started", <<>>)
              /\ processing_log' =
                    Append(processing_log,
                           LogRow(frame[c].eventHash, "ingest", "duplicate",
                                  <<Msg("Event already processed", Null)>>))
        /\ (pc[c] = "done" /\ pc'[c] # "done")
           => UNCHANGED <<raw_events, normalized_events, failed_events,
                          processing_log, sqlite_sequence, journal, inTransaction>>
\* C7 (Duplicate path frame): the 'started' log write changes nothing but the
\* log; when the duplicate check finds the fingerprint the call appends the
\* 'duplicate' entry right after its 'started' entry, returns the duplicate
\* result without running normalization or opening a transaction, and leaves
\* raw_events, normalized_events, failed_events and the id counters as they were.
C7_DuplicateFrame == [][C7_Step]_vars

\* A duplicate result was just produced.
C7_Witness ==
    \E c \in Clients :
        /\ pc[c] = "done" /\ IsDuplicate(frame[c].result)
        /\ processing_log[Len(processing_log)].status = "duplicate"

\* No alias of amount has a value in the payload normalize selects.
AmountMissing(e) ==
    extractField(IF Truthy(Get(e, "payload")) THEN Get(e, "payload") ELSE e,
                 "amount") = Null
\* C8 (Validation rejection): the first submission of a payload whose amount
\* is missing returns the 400 result whose error list names amount as
\* missing; no NormalizedEvent exists for the fingerprint, and one RawEvent
\* and one FailedEvent of type validation_error referencing it are stored.
C8_ValidationRejection ==
    \A i \in Calls :
        (FirstFor(i) /\ AmountMissing(results[i].rawEvent))
        => LET h == results[i].eventHash
               r == results[i].result
           IN /\ r.status = 400 /\ ~r.success
              /\ \E k \in 1..Len(r.errors) :
                    r.errors[k] = Msg("Missing required field: amount (or equivalent)",
                                      Null)
              /\ NormalizedFor(h) = {}
              /\ Cardinality(RawFor(h)) = 1
              /\ Cardinality(FailedFor(h)) = 1
              /\ \A f \in FailedFor(h) :
                    /\ f.error_type = "validation_error"
                    /\ \E x \in RawFor(h) : f.raw_event_id = x.id

C8_Witness ==
    \E i \in Calls :
        /\ FirstFor(i) /\ AmountMissing(results[i].rawEvent)
        /\ results[i].result.status = 400

\* C9 (Persistence errors): whenever the transactional write of a call
\* failed, the call returns the 500 result with retryable = true that carries
\* the transaction's error text.
C9_PersistenceError ==
    \A i \in Calls :
        results[i].txnError # <<>>
        => /\ ~results[i].result.threw
           /\ results[i].result.status = 500
           /\ IsRetryable(results[i].result)
           /\ results[i].result.error = results[i].txnError

\* C10 (Server errors are retryable): every 500 result is flagged retryable.
C10_ServerErrorRetryable ==
    \A i \in Calls :
        (~results[i].result.threw /\ results[i].result.status = 500)
        => IsRetryable(results[i].result)

\* A storage operation outside the transaction and outside the inner try
\* threw during call i.
FaultOutsideUnit(i) ==
    results[i].faultAt \in {"log_started", "check", "vfail_raw", "vfail_failed",
                            "vfail_log", "log_success", "perr_log", "unexpected"}

\* C11 (No exception leaves ingestEvent): when a storage operation of a call
\* throws (the 'started' log write, the duplicate lookup, the standalone raw
\* insert, the FailedEvent insert or a log write of a handler), the call
\* still returns a 500 result, it does not throw, and an 'error' log entry
\* for the fingerprint is recorded.
C11_NoException ==
    \A i \in Calls :
        FaultOutsideUnit(i)
        => /\ ~results[i].result.threw
           /\ results[i].result.status = 500
           /\ \E k \in 1..Len(processing_log) :
                 /\ processing_log[k].event_hash = results[i].eventHash
                 /\ processing_log[k].status = "error"

\* C12 (Four result shapes): every call that returns yields the duplicate
\* (200), validation failure (400), created (201) or server error (500)
\* shape, and the result carries the fingerprint computed for the submitted
\* payload.
C12_ResultShapes ==
    \A i \in Calls :
        LET r == results[i].result
        IN ~r.threw
           => /\ {"status", "success", "message", "eventHash"} \subseteq r.fields
              /\ r.eventHash = generateEventHash(results[i].rawEvent)
              /\ \/ /\ r.status = 200 /\ r.success
                    /\ r.fields = {"status", "success", "message", "isDuplicate",
                                   "eventHash", "firstSeenAt", "data"}
                 \/ /\ r.status = 400 /\ ~r.success
                    /\ r.fields = {"status", "success", "message", "errors",
                                   "warnings", "eventHash"}
                 \/ /\ r.status = 201 /\ r.success
                    /\ r.fields = {"status", "success", "message", "eventHash",
                                   "rawEventId", "normalizedEventId", "data",
                                   "warnings"}
                 \/ /\ r.status = 500 /\ ~r.success
                    /\ r.fields \in {{"status", "success", "message", "error",
                                      "eventHash", "retryable"},
                                     {"status", "success", "message", "error",
                                      "eventHash"}}

\* The outer catch answered one call and another call created its rows.
C12_Witness ==
    /\ \E i \in Calls : results[i].result.message = "Unexpected error occurred"
    /\ \E i \in Calls : IsCreated(results[i].result)

AllIdle == \A c \in Clients : pc[c] = "idle"
\* The fingerprints of the payloads of the model and of the stored rows.
Fingerprints ==
    {generateEventHash(e) : e \in Events}
    \cup {r.event_hash : r \in raw_events} \cup {f.event_hash : f \in failed_events}

\* C13 (Fingerprint states): when every call has returned and no storage
\* operation failed other than by the injected fault, each fingerprint has
\* either no row, or one RawEvent with one NormalizedEvent and no FailedEvent,
\* or one RawEvent with one FailedEvent and no NormalizedEvent.
C13_FingerprintStates ==
    AllIdle =>
      /\ \A n \in normalized_events : \E r \in raw_events : r.id = n.raw_event_id
      /\ \A h \in Fingerprints :
          \/ RawFor(h) = {} /\ NormalizedFor(h) = {} /\ FailedFor(h) = {}
          \/ /\ Cardinality(RawFor(h)) = 1 /\ Cardinality(NormalizedFor(h)) = 1
             /\ FailedFor(h) = {}
          \/ /\ Cardinality(RawFor(h)) = 1 /\ Cardinality(FailedFor(h)) = 1
             /\ NormalizedFor(h) = {}

\* All three states occur at once, after a resubmission.
C13_Witness ==
    /\ AllIdle
    /\ \E h \in Fingerprints : RawFor(h) = {}
    /\ \E h \in Fingerprints : NormalizedFor(h) # {}
    /\ \E h \in Fingerprints : FailedFor(h) # {}
    /\ Len(results) = 3

\* The positions of a call between its checkDuplicate and its raw insert.
BetweenCheckAndInsert == {"vfail_raw", "txn_begin", "txn_raw"}

C17_SecondaryFailure ==
    \A i \in Calls :
        results[i].faultAt = "perr_raw"
        => /\ ~results[i].result.threw
           /\ results[i].result.status = 500
           /\ \E f \in failed_events :
                 /\ f.event_hash = results[i].eventHash
                 /\ f.error_type = "persistence_error"
                 /\ f.raw_event_id = 0

\* The log entry of each branch and the status of its result.
Branches ==
    {<<"ingest", "duplicate", 200>>, <<"normalize", "failed", 400>>,
     <<"ingest", "success", 201>>, <<"persist", "failed", 500>>}

\* The log of a call in progress: 'started' first, then at most one entry of
\* a branch, and at the return exactly one, matching the result.
C18_CallLog ==
    \A c \in Clients :
        LET b == frame[c].logBase
            h == frame[c].eventHash
            n == Len(processing_log)
        IN /\ pc[c] \notin {"idle", "log_started"}
              => /\ n \in {b + 1, b + 2}
                 /\ processing_log[b + 1] = LogRow(h, "ingest", "started", <<>>)
           /\ pc[c] = "done"
              => /\ n = b + 2
                 /\ processing_log[n].event_hash = h
                 /\ <<processing_log[n].action, processing_log[n].status,
                      frame[c].result.status>> \in Branches

C19_HashInvariance ==
    (pure.kind = "hash" /\ pure.edits > 0)
    => IF pure.swaps = 0 THEN pure.hy = pure.hx ELSE pure.hy # pure.hx

\* A payload rewritten twice, without an array swap, and not equal to the
\* first payload.
C19_Witness ==
    /\ pure.kind = "hash" /\ pure.edits >= 2 /\ pure.swaps = 0
    /\ pure.y # pure.x
    /\ \E i \in 1..Len(pure.y.v) : pure.y.v[i].k \in HashSkippedKeys

\* C20 (Fingerprint ignores the alias chosen): a payload that supplies the
\* value of a canonical field under another accepted alias (source or client,
\* amount or value) has the fingerprint of the payload it was rewritten from.
C20_AliasInvariance ==
    (pure.kind = "alias" /\ pure.edits > 0) => pure.hy = pure.hx

\* C21 (Business fields distinguish fingerprints): a payload whose client
\* identifier, metric, amount or event timestamp (also one supplied under
\* created_at) normalizes to another value than in the first payload has
\* another fingerprint than the first payload.
C21_BusinessFields ==
    (pure.kind = "business" /\ pure.edits > 0 /\ pure.ny.data # pure.nx.data)
    => pure.hy # pure.hx

\* normalize has been applied to pure.y, with result pure.ny.
WasNormalized == pure.kind = "normalize" /\ pure.last # ""
\* The elements of a sequence.
Range(seq) == {seq[i] : i \in 1..Len(seq)}
\* The value normalize extracts for a field of pure.y (null when pure.y is
\* not an object or names no alias with a value).
Extracted(field) ==
    IF IsObj(pure.y) /\ Truthy(ScopeOf(pure.y, field))
    THEN extractField(ScopeOf(pure.y, field), field) ELSE Null
Texts(msgs) == {m.text : m \in Range(msgs)}

\* C22 (normalize never throws): for every argument, also null, a number, a
\* string or an event whose payload is no object, normalize returns a result;
\* success is true exactly when the error list is empty, a successful result
\* carries canonical data with all four fields filled, a failed one carries
\* data null and at least one error.
C22_NormalizeTotal ==
    WasNormalized
    => /\ pure.ny.success <=> pure.ny.errors = <<>>
       /\ pure.ny.success
          => /\ pure.ny.data.t = "canonical"
             /\ pure.ny.data.client_id.t = "str" /\ pure.ny.data.metric.t = "str"
             /\ pure.ny.data.amount.t = "num" /\ pure.ny.data.timestamp.t = "str"
       /\ ~pure.ny.success => pure.ny.data = Null /\ pure.ny.errors # <<>>

\* normalize applied to null returned the exception result, and normalize
\* applied to an event with a string payload returned its errors.
C22_Witness ==
    /\ WasNormalized /\ pure.last = "input"
    /\ pure.y \in {Null, EvStringPayload}
    /\ ~pure.ny.success /\ pure.ny.errors # <<>>

MissingText ==
    [client_id |-> "Missing required field: client_id (or equivalent)",
     metric |-> "Missing required field: metric (or equivalent)"]

\* C23 (Field resolution): the client identifier and the metric are reported
\* missing exactly when no alias carries a present, non-null, non-empty
\* value; otherwise the canonical field is the value of the first such alias
\* as a string, also when that value is 0 or false.
C23_FieldResolution ==
    (WasNormalized /\ IsObj(pure.y))
    => \A field \in {"client_id", "metric"} :
          LET alias == AliasIn(ScopeOf(pure.y, field), field)
          IN /\ MissingText[field] \in Texts(pure.ny.errors) <=> alias = ""
             /\ (pure.ny.success /\ alias # "")
                => pure.ny.data[field] = String(Get(ScopeOf(pure.y, field), alias))

\* s is digits with ',' separators, an optional leading '$' and an optional
\* decimal part.
IsPlainAmount(s) ==
    LET body == IF s # <<>> /\ s[1] = "$" THEN Tail(s) ELSE s
        dots == {i \in 1..Len(body) : body[i] = "."}
    IN /\ body # <<>> /\ IsDigit(body[1])
       /\ Cardinality(dots) <= 1
       /\ \A i \in 1..Len(body) :
             \/ IsDigit(body[i])
             \/ body[i] = "," /\ \A d \in dots : i < d
             \/ body[i] = "." /\ i < Len(body)

Min2(a, b) == IF a <= b THEN a ELSE b

\* The number a plain amount denotes once ',' and '$' are taken out.
PlainValue(s) ==
    LET ds == SelectSeq(s, LAMBDA c : IsDigit(c) \/ c = ".")
        dot == IF \E i \in 1..Len(ds) : ds[i] = "."
               THEN CHOOSE i \in 1..Len(ds) : ds[i] = "." ELSE Len(ds) + 1
    IN Dec(DigitsVal(SelectSeq(ds, IsDigit)), Len(ds) - Min2(dot, Len(ds)))

CoercionWarnings ==
    {i \in 1..Len(pure.ny.warnings) :
       pure.ny.warnings[i].text = "Amount was provided as string, converted"}

\* C24 (Amount coercion): a string amount of digits with optional ','
\* separators, leading '$' and decimal part is accepted as the number it
\* denotes without ',' and '$' and adds exactly one coercion warning; a
\* number is kept as it is and adds no coercion warning.
C24_AmountCoercion ==
    WasNormalized
    => LET amount == Extracted("amount")
       IN /\ (amount.t = "str" /\ IsPlainAmount(amount.v))
             => /\ Cardinality(CoercionWarnings) = 1
                /\ pure.ny.success => pure.ny.data.amount = PlainValue(amount.v)
          /\ amount.t = "num"
             => /\ CoercionWarnings = {}
                /\ pure.ny.success => pure.ny.data.amount = amount

\* The amount "1,200.50" was normalized to 1200.5.
C24_Witness ==
    /\ WasNormalized /\ pure.last = "amount" /\ pure.ny.success
    /\ Extracted("amount") = S(<<"1", ",", "2", "0", "0", ".", "5", "0">>)
    /\ pure.ny.data.amount = Dec(12005, 1)

\* s is a number from its first to its last character: sign, digits and an
\* optional decimal part.
IsNumberText(s) ==
    LET body == IF s # <<>> /\ s[1] \in {"-", "+"} THEN Tail(s) ELSE s
    IN IsPlainAmount(body) /\ \A i \in 1..Len(body) : body[i] \notin {",", "$"}

AmountTexts ==
    {"Missing required field: amount (or equivalent)",
     "Invalid amount value (cannot be converted to number)"}

\* C25 (Unparseable amount): a missing amount, a string amount that without
\* ',' and '$' is not a number from end to end ("abc", "12abc"), and an amount
\* that is neither number nor string give an amount error; normalize fails
\* and no NormalizedEvent is stored.
C25_UnparseableAmount ==
    (WasNormalized /\ IsObj(pure.y))
    => LET amount == Extracted("amount")
       IN (\/ amount = Null
           \/ amount.t = "str" /\ ~IsNumberText(trim(StripSeparators(amount.v)))
           \/ amount.t \notin {"null", "str", "num"})
          => /\ Texts(pure.ny.errors) \cap AmountTexts # {}
             /\ ~pure.ny.success
             /\ pure.stored = Null

\* C26 (Amounts are non-negative): the canonical record of a successful
\* normalize, and the NormalizedEvent stored from it, has an amount >= 0.
C26_NonNegativeAmount ==
    (WasNormalized /\ pure.ny.success)
    => /\ pure.ny.data.amount.v >= 0
       /\ pure.stored # Null => pure.stored.amount.v >= 0

\* A value no date parser reads: an object, or a string without a digit.
NotADate(v) ==
    \/ v.t = "obj"
    \/ v.t = "str" /\ v.v # <<>> /\ \A i \in 1..Len(v.v) : ~IsDigit(v.v[i])

\* C27 (Unparseable timestamp): a timestamp value that is present and is no
\* date gives both the timestamp error and the current-time warning;
\* normalize returns success false with data null, and ingestEvent answers
\* 400 with both lists.
C27_UnparseableTimestamp ==
    (WasNormalized /\ NotADate(Extracted("timestamp")))
    => /\ "Invalid timestamp format" \in Texts(pure.ny.errors)
       /\ "Using current time due to invalid timestamp" \in Texts(pure.ny.warnings)
       /\ ~pure.ny.success /\ pure.ny.data = Null
       /\ pure.res.status = 400
       /\ pure.res.errors = pure.ny.errors /\ pure.res.warnings = pure.ny.warnings
       /\ pure.res.warnings # <<>> /\ pure.res.errors # <<>>

\* The timestamp "nop" is the only thing wrong with the payload.
C27_Witness ==
    /\ WasNormalized /\ pure.last = "timestamp"
    /\ Extracted("timestamp") = S(<<"n", "o", "p">>)
    /\ Len(pure.ny.errors) = 1 /\ pure.res.status = 400

UnknownTexts == {"Unknown field at root level", "Unknown field in payload"}

\* C28 (Unknown fields never fail): unknown keys give warnings and no error;
\* when a key that is no alias is added to a payload that normalized
\* successfully the result is still successful, with the same canonical
\* data and a warning that names the key.
C28_UnknownFields ==
    WasNormalized
    => /\ Texts(pure.ny.errors) \cap UnknownTexts = {}
       /\ (pure.last = "unknown" /\ pure.nx.success)
          => /\ pure.ny.success /\ pure.ny.data = pure.nx.data
             /\ \E w \in Range(pure.ny.warnings) :
                   w.text \in UnknownTexts /\ w.arg = Str(<<"extra">>)

\* The key extra was added to a payload that normalizes successfully.
C28_Witness ==
    /\ WasNormalized /\ pure.last = "unknown" /\ pure.nx.success /\ pure.ny.success
    /\ pure.y # pure.x

\* The raw rows outside an open transaction.
CommittedRaw == IF journal = <<>> THEN raw_events ELSE journal[1].raw_events

\* C29 (Raw events are immutable): a committed RawEvent stays in raw_events
\* with the same fingerprint, payload and receipt time through every later
\* step, whatever calls follow, also resubmissions of the same content in
\* other bytes and rollbacks.
C29_RawImmutable ==
    [][\A r \in CommittedRaw : r \in raw_events']_vars

\* A stored event was resubmitted in other bytes and answered as a duplicate,
\* a later call was rolled back, and the stored row has its first payload.
C29_Witness ==
    \E r \in raw_events, i, j \in Calls :
        /\ i < j
        /\ IsDuplicate(results[i].result)
        /\ results[i].eventHash = r.event_hash
        /\ results[i].rawEvent # r.raw_data
        /\ results[j].result.status = 500

\* The calls that returned the created result.
CreatedCalls == {i \in Calls : IsCreated(results[i].result)}

C31_ValidationPermanent ==
    \A i \in Calls, j \in Calls :
        ( /\ i < j
          /\ results[i].rawEvent = results[j].rawEvent
          /\ ~results[i].result.threw /\ results[i].result.status = 400 )
        => ~results[j].result.threw /\ ~results[j].result.success

\* C32 (Duplicate echo): when a call returns the duplicate result for a
\* fingerprint whose first submission returned the created result,
\* firstSeenAt is the receipt time stored with the RawEvent of that first
\* call and data is the canonical record that call returned.
C32_DuplicateEcho ==
    \A i \in Calls, j \in Calls :
        ( /\ i < j
          /\ results[i].eventHash = results[j].eventHash
          /\ IsCreated(results[i].result)
          /\ IsDuplicate(results[j].result) )
        => /\ \E r \in raw_events :
                 /\ r.id = results[i].result.rawEventId
                 /\ r.event_hash = results[i].eventHash
                 /\ results[j].result.firstSeenAt = r.received_at
           /\ results[j].result.data = results[i].result.data

\* The duplicate was submitted in other bytes, whose own normalization at
\* any instant differs from the record echoed.
C32_Witness ==
    \E i \in Calls, j \in Calls :
        /\ i < j
        /\ results[i].eventHash = results[j].eventHash
        /\ IsCreated(results[i].result)
        /\ IsDuplicate(results[j].result)
        /\ results[j].rawEvent # results[i].rawEvent
        /\ \A now \in 0..MaxCalls :
              normalize(results[j].rawEvent, now).data # results[j].result.data

\* The positions of a call inside the function transaction() returns.
TxnPositions ==
    {"txn_begin", "txn_raw", "txn_check", "txn_norm", "txn_commit", "txn_rollback"}
\* No call is inside the function transaction() returns.
OutsideTransaction == \A c \in Clients : pc[c] \notin TxnPositions

\* C33 (Transaction closure): once the function returned by transaction()
\* has returned or thrown, also after a failing BEGIN, COMMIT or ROLLBACK, no
\* SQL transaction is open and inTransaction is false, and every write made
\* outside it from then on is saved to the database file.
C33_TransactionClosure ==
    [][OutsideTransaction' =>
         /\ journal' = <<>> /\ ~inTransaction'
         /\ (OutsideTransaction /\ tables' # tables) => file' = Snapshot']_vars

\* The object has the key.
HasKey(obj, key) == IsObj(obj) /\ \E i \in 1..Len(obj.v) : obj.v[i].k = key

\* The value the claim has normalize read a payload field from: the value
\* under the key payload when the event has that key, the event otherwise.
ClaimedScope(e) == IF HasKey(e, "payload") THEN Get(e, "payload") ELSE e

\* C34 (Payload selection): metric, amount and timestamp are resolved from
\* the value under the key payload whenever the event has that key, also when
\* that value is null, empty or otherwise falsy, and from the top-level
\* object only when the event has no payload key: a field is reported missing
\* exactly when the selected value names no alias with a value.
C34_PayloadSelection ==
    (WasNormalized /\ IsObj(pure.y))
    => /\ MissingText.metric \in Texts(pure.ny.errors)
          <=> ~Truthy(extractField(ClaimedScope(pure.y), "metric"))
       /\ "Missing required field: amount (or equivalent)" \in Texts(pure.ny.errors)
          <=> extractField(ClaimedScope(pure.y), "amount") = Null
       /\ "Missing timestamp field, using current time as fallback"
             \in Texts(pure.ny.warnings)
          <=> ~Truthy(extractField(ClaimedScope(pure.y), "timestamp"))

FallbackText == "Missing timestamp field, using current time as fallback"

\* The event names no timestamp alias with a value; its client identifier and
\* metric have a value and its amount is a number.
ValidWithoutTimestamp(e) ==
    /\ IsObj(e)
    /\ ~Truthy(extractField(ScopeOf(e, "timestamp"), "timestamp"))
    /\ Truthy(extractField(e, "client_id"))
    /\ Truthy(extractField(ScopeOf(e, "metric"), "metric"))
    /\ parseNumber(extractField(ScopeOf(e, "amount"), "amount")) # Null

RecognizedKeys == knownFields \cup payloadKnownFields

\* C36 (Unknown-field warnings name unrecognized keys only): no unknown-field
\* warning names an alias of a canonical field or the key payload, in
\* particular not for an event without payload key whose top-level keys are
\* all aliases.
C36_UnknownOnly ==
    (WasNormalized /\ IsObj(pure.y))
    => \A w \in Range(pure.ny.warnings) :
          w.text \in UnknownTexts => w.arg.v[1] \notin RecognizedKeys

FileUntouchedInTransaction == journal # <<>> => file = journal[1]

\* The transaction call of a client has just returned after COMMIT.
JustCommitted(c) == pc[c] = "log_success"

\* C38 (The file is not written inside a transaction): between BEGIN and
\* COMMIT or ROLLBACK the file is not written, so it never holds a row of a
\* transaction that is rolled back; and it holds the rows of a committed
\* transaction as soon as the transaction call has returned.
C38_FileAndTransactions ==
    /\ FileUntouchedInTransaction
    /\ \A c \in Clients :
          JustCommitted(c)
          => /\ file.raw_events = raw_events
             /\ file.normalized_events = normalized_events

====
